---------------------------- MODULE Spec2Model ----------------------------
(***************************************************************************)
(* A model of the SMS webhook receiver (app.py served by gunicorn with the *)
(* settings of gunicorn.conf.py): the POST /sms-webhook handler with its   *)
(* eligibility gate and its four regular-expression searches, the          *)
(* per-process recent-entries deque with its lock, the GET /recent         *)
(* handler, and the optional MongoDB sink.                                 *)
(*                                                                         *)
(* Text is a sequence of one-character strings, so that lower(),           *)
(* startswith(), strip() and re.search() are computed character by         *)
(* character as CPython computes them.                                     *)
(***************************************************************************)
EXTENDS Integers, Sequences, FiniteSets, TLC

(***************************************************************************)
(* Characters and str methods                                              *)
(***************************************************************************)
UpperChars ==
  <<"A","B","C","D","E","F","G","H","I","J","K","L","M",
    "N","O","P","Q","R","S","T","U","V","W","X","Y","Z">>

LowerChars ==
  <<"a","b","c","d","e","f","g","h","i","j","k","l","m",
    "n","o","p","q","r","s","t","u","v","w","x","y","z">>

DigitChars == <<"0","1","2","3","4","5","6","7","8","9">>

\* [A-Z]
Upper == {UpperChars[i] : i \in 1..26}

\* \d
Digit == {DigitChars[i] : i \in 1..10}

\* \w
Word == Upper \cup {LowerChars[i] : i \in 1..26} \cup Digit \cup {"_"}

\* \s
Space == {" ", "\t", "\n", "\r"}

\* str.lower() on one character
LowerChar(c) ==
  IF c \in Upper THEN LowerChars[CHOOSE i \in 1..26 : UpperChars[i] = c] ELSE c

\* str.lower()
lower(s) == [i \in 1..Len(s) |-> LowerChar(s[i])]

\* str.startswith(p)
startswith(s, p) == Len(s) >= Len(p) /\ SubSeq(s, 1, Len(p)) = p

SetMin(S) == CHOOSE x \in S : \A y \in S : x <= y

SetMax(S) == CHOOSE x \in S : \A y \in S : y <= x

\* the last index of the longest run of characters of class C that starts at
\* index i of m (i - 1 when m[i] is not in C): what a greedy C* consumes
RunEnd(m, i, C) ==
  LET stops == {k \in i..Len(m) : m[k] \notin C}
  IN  IF stops = {} THEN Len(m) ELSE SetMin(stops) - 1

\* m has character c at index i
At(m, i, c) == i >= 1 /\ i <= Len(m) /\ m[i] = c

\* m has a character of class C at index i
In(m, i, C) == i >= 1 /\ i <= Len(m) /\ m[i] \in C

\* the literal lit occurs in m at index i
Lit(m, i, lit) ==
  i >= 1 /\ i + Len(lit) - 1 <= Len(m) /\ SubSeq(m, i, i + Len(lit) - 1) = lit

\* str.strip(): leading and trailing whitespace removed
strip(s) ==
  LET keep == {k \in 1..Len(s) : s[k] \notin Space}
  IN  IF keep = {} THEN <<>> ELSE SubSeq(s, SetMin(keep), SetMax(keep))

(***************************************************************************)
(* Python values: None, str, int (a JSON number) and float                 *)
(***************************************************************************)
None == [t |-> "none", v |-> <<>>]

Str(s) == [t |-> "str", v |-> s]

Number(n) == [t |-> "int", v |-> <<n>>]

Float(hundredths) == [t |-> "float", v |-> <<hundredths>>]

\* truth value of a Python value: None, "" and 0 are falsy
Truthy(x) ==
  CASE x.t = "none" -> FALSE
    [] x.t = "str"  -> x.v # <<>>
    [] x.t = "int"  -> x.v # <<0>>
    [] OTHER        -> TRUE

\* a or b
Or(a, b) == IF Truthy(a) THEN a ELSE b

DigitVal(c) == (CHOOSE i \in 1..10 : DigitChars[i] = c) - 1

RECURSIVE ToNat(_)
\* the number a run of decimal digits denotes
ToNat(ds) ==
  IF ds = <<>> THEN 0
  ELSE 10 * ToNat(SubSeq(ds, 1, Len(ds) - 1)) + DigitVal(ds[Len(ds)])

\* float(g) for g of the shape \d+(\.\d{1,2})?, kept exactly as a number of
\* hundredths: float("500"), float("500.0") and float("500.00") are one value
float(g) ==
  LET dots == {k \in 1..Len(g) : g[k] = "."}
      dot  == IF dots = {} THEN Len(g) + 1 ELSE SetMin(dots)
      ip   == SubSeq(g, 1, dot - 1)
      fp   == SubSeq(g, dot + 1, Len(g))
  IN  Float(100 * ToNat(ip)
            + (IF Len(fp) = 1 THEN 10 * ToNat(fp) ELSE ToNat(fp)))

(***************************************************************************)
(* re.search: the leftmost match, each quantifier greedy.  A match is the  *)
(* text of group 1, NoMatch is Python's None result.                       *)
(***************************************************************************)
NoMatch == [found |-> FALSE, group |-> <<>>]

Match(g) == [found |-> TRUE, group |-> g]

\* Rs\.?(\d+(?:\.\d{1,2})?) anchored at index i
AmountAt(m, i) ==
  LET j   == IF At(m, i + 2, ".") /\ In(m, i + 3, Digit) THEN i + 3 ELSE i + 2
      k   == RunEnd(m, j, Digit)
      end == IF At(m, k + 1, ".") /\ In(m, k + 2, Digit)
             THEN (IF In(m, k + 3, Digit) THEN k + 3 ELSE k + 2)
             ELSE k
  IN  IF Lit(m, i, <<"R","s">>) /\ In(m, j, Digit)
      THEN Match(SubSeq(m, j, end))
      ELSE NoMatch

\* Info:UPI/[A-Z]+/(\d+)/ anchored at index i
TxnAt(m, i) ==
  LET u == RunEnd(m, i + 9, Upper)
      d == RunEnd(m, u + 2, Digit)
  IN  IF /\ Lit(m, i, <<"I","n","f","o",":","U","P","I","/">>)
         /\ u >= i + 9
         /\ At(m, u + 1, "/")
         /\ d >= u + 2
         /\ At(m, d + 1, "/")
      THEN Match(SubSeq(m, u + 2, d))
      ELSE NoMatch

\* \s+on\s+\d anchored at index p
OnDigitAt(m, p) ==
  LET q == RunEnd(m, p, Space) + 1
      r == RunEnd(m, q + 2, Space) + 1
  IN  /\ In(m, p, Space)
      /\ Lit(m, q, <<"o","n">>)
      /\ In(m, q + 2, Space)
      /\ In(m, r, Digit)

\* /(\w[\w\s]*)\s+on\s+\d anchored at index i: the greedy [\w\s]* gives back
\* characters until the rest of the pattern matches
NameAt(m, i) ==
  LET run  == RunEnd(m, i + 1, Word \cup Space)
      ends == {e \in (i + 1)..run : OnDigitAt(m, e + 1)}
  IN  IF At(m, i, "/") /\ In(m, i + 1, Word) /\ ends # {}
      THEN Match(SubSeq(m, i + 1, SetMax(ends)))
      ELSE NoMatch

\* \d{2}<sep>\d{2}<sep>\d{2} at index a
Triple(m, a, sep) ==
  /\ In(m, a, Digit) /\ In(m, a + 1, Digit) /\ At(m, a + 2, sep)
  /\ In(m, a + 3, Digit) /\ In(m, a + 4, Digit) /\ At(m, a + 5, sep)
  /\ In(m, a + 6, Digit) /\ In(m, a + 7, Digit)

\* on\s+(\d{2}-\d{2}-\d{2}\s+\d{2}:\d{2}:\d{2}) anchored at index i
TimeAt(m, i) ==
  LET a == RunEnd(m, i + 2, Space) + 1
      b == RunEnd(m, a + 8, Space) + 1
  IN  IF /\ Lit(m, i, <<"o","n">>)
         /\ In(m, i + 2, Space)
         /\ Triple(m, a, "-")
         /\ In(m, a + 8, Space)
         /\ Triple(m, b, ":")
      THEN Match(SubSeq(m, a, b + 7))
      ELSE NoMatch

\* re.search(r'Rs\.?(\d+(?:\.\d{1,2})?)', message)
amount_match(m) ==
  LET at == {i \in 1..Len(m) : AmountAt(m, i).found}
  IN  IF at = {} THEN NoMatch ELSE AmountAt(m, SetMin(at))

\* re.search(r'Info:UPI/[A-Z]+/(\d+)/', message)
txn_match(m) ==
  LET at == {i \in 1..Len(m) : TxnAt(m, i).found}
  IN  IF at = {} THEN NoMatch ELSE TxnAt(m, SetMin(at))

\* re.search(r'/(\w[\w\s]*)\s+on\s+\d', message)
name_match(m) ==
  LET at == {i \in 1..Len(m) : NameAt(m, i).found}
  IN  IF at = {} THEN NoMatch ELSE NameAt(m, SetMin(at))

\* re.search(r'on\s+(\d{2}-\d{2}-\d{2}\s+\d{2}:\d{2}:\d{2})', message)
time_match(m) ==
  LET at == {i \in 1..Len(m) : TimeAt(m, i).found}
  IN  IF at = {} THEN NoMatch ELSE TimeAt(m, SetMin(at))

(***************************************************************************)
(* Requests.  request.form is a mapping of the three fields the handler    *)
(* reads (None: the field is not sent); request.get_json(silent=True) is   *)
(* None, a JSON object with those fields, or a JSON value that is no       *)
(* object.                                                                 *)
(***************************************************************************)
NoFields == [key |-> None, msg |-> None, time |-> None]

NoJson == [kind |-> "none", fields |-> NoFields]

\* a JSON object
JsonDict(f) == [kind |-> "dict", fields |-> f]

\* a non-empty JSON array: truthy, and without a get method
JsonList == [kind |-> "list", fields |-> NoFields]

Post(form, json) == [method |-> "POST", form |-> form, json |-> json]

Get == [method |-> "GET", form |-> NoFields, json |-> NoJson]

\* a dict is truthy when it has a key
DictTruthy(f) == f # NoFields

\* data = request.form.to_dict() or request.get_json(silent=True) or {}
data(req) ==
  IF DictTruthy(req.form) THEN JsonDict(req.form)
  ELSE IF req.json.kind = "dict" /\ DictTruthy(req.json.fields) THEN req.json
  ELSE IF req.json.kind = "list" THEN req.json
  ELSE JsonDict(NoFields)

\* message = data.get("key") or data.get("msg") or ""
message(d) == Or(Or(d.fields.key, d.fields.msg), Str(<<>>))

\* raw_time = data.get("time") or datetime.now().isoformat()
raw_time(d, now) == Or(d.fields.time, Str(now))

UPI_CREDIT == <<"u","p","i"," ","c","r","e","d","i","t">>

\* message.lower().startswith("upi credit")
IsCredit(m) == startswith(lower(m), UPI_CREDIT)

\* amount = float(amount_match.group(1)) if amount_match else None
amount(m) ==
  LET amount_m == amount_match(m)
  IN  IF amount_m.found THEN float(amount_m.group) ELSE None

\* a variant in which a missing amount suppresses the transaction id
txn_id_after_amount(m) ==
  LET txn_m == txn_match(m)
  IN  IF amount_match(m).found /\ txn_m.found THEN Str(txn_m.group) ELSE None

\* txn_id = txn_match.group(1) if txn_match else None
txn_id(m) ==
  LET txn_m == txn_match(m)
  IN  IF txn_m.found THEN Str(txn_m.group) ELSE None

\* name = name_match.group(1).strip() if name_match else None
name(m) ==
  LET name_m == name_match(m)
  IN  IF name_m.found THEN Str(strip(name_m.group)) ELSE None

\* sms_time = time_match.group(1) if time_match else None
sms_time(m) ==
  LET time_m == time_match(m)
  IN  IF time_m.found THEN Str(time_m.group) ELSE None

parsed_data(m, rt) ==
  [ name           |-> name(m),
    transaction_id |-> txn_id(m),
    amount         |-> amount(m),
    timestamp      |-> sms_time(m),
    raw_sms        |-> Str(m),
    received_at    |-> rt ]

NoParsed ==
  [ name |-> None, transaction_id |-> None, amount |-> None,
    timestamp |-> None, raw_sms |-> None, received_at |-> None ]

(***************************************************************************)
(* Responses: the status code and the JSON body (status, parsed, message). *)
(***************************************************************************)
NoResponse == [code |-> 0, status |-> "", parsed |-> NoParsed, message |-> ""]

\* return "", 400
Ignored == [code |-> 400, status |-> "", parsed |-> NoParsed, message |-> ""]

\* return jsonify({"status": "success", "parsed": parsed_data}), 200
Success(p) == [code |-> 200, status |-> "success", parsed |-> p, message |-> ""]

\* return jsonify({"status": "error", "message": str(e)}), 500
Error(e) == [code |-> 500, status |-> "error", parsed |-> NoParsed, message |-> e]

\* What lines 52-109 of sms_webhook compute from a request before the handler
\* touches the lock or the database: an exception, the not-a-credit-message
\* branch, or the response body and the entry to record.
Handle(req, now) ==
  LET d == data(req)
  IN  IF d.kind # "dict"
      THEN [branch |-> "raise",
            response |-> Error("'list' object has no attribute 'get'")]
      ELSE IF message(d).t # "str"
      THEN [branch |-> "raise",
            response |-> Error("'int' object has no attribute 'lower'")]
      ELSE IF ~IsCredit(message(d).v)
      THEN [branch |-> "ignore", response |-> Ignored]
      ELSE [branch |-> "parsed",
            response |-> Success(parsed_data(message(d).v, raw_time(d, now)))]

(***************************************************************************)
(* The server: gunicorn forks `workers` processes after loading app.py,    *)
(* each with `threads` request threads.  Module-level objects of app.py    *)
(* (RECENT_LOCK, RECENT_ENTRIES) exist once per process.                   *)
(***************************************************************************)
workers == 3

threads == 2

\* deque(maxlen=5)
maxlen == 5

\* requests the deployed server is given
MaxRequests == 3

\* requests one process is given, its threads running concurrently
MaxProcRequests == 3

\* requests one process is given when the steps of its threads are fair
MaxFairRequests == 3

\* requests the sequential server is given
MaxSeqRequests == 7

Workers == 1..workers

Threads == Workers \X (1..threads)

NoThread == <<0, 0>>

VARIABLES
  mongo_db,        \* TRUE: a database handle; FALSE: mongo_db is None
  RECENT_LOCK,     \* per process: the thread that holds the lock, or NoThread
  RECENT_ENTRIES,  \* per process: the deque, newest entry first
  pc,              \* per thread: where its handler stands
  frame,           \* per thread: the handler's local variables
  nreq,            \* requests received so far; a request's number names it
  pushLog,         \* the appends of all processes, oldest first: [w, id]
  succeeded        \* the requests whose success response has been returned

vars ==
  <<mongo_db, RECENT_LOCK, RECENT_ENTRIES, pc, frame, nreq, pushLog, succeeded>>

\* a handler's locals; pushes, persisted, cache0, before and seen record what
\* the handler did and saw, for the properties below
IdleFrame ==
  [ id        |-> 0,
    req       |-> Get,
    response  |-> NoResponse,
    entries   |-> <<>>,
    pushes    |-> 0,
    persisted |-> "absent",
    cache0    |-> <<>>,
    before    |-> {},
    seen      |-> {} ]

\* the entry dict of lines 100-109; id, the request's number, is not in the
\* dict: it tells the entries of equal requests apart
entry(id, req, response) ==
  [ id          |-> id,
    received_at |-> response.parsed.received_at,
    request     |-> [form |-> req.form, json |-> req.json],
    parsed      |-> response.parsed,
    response    |-> response ]

\* a variant that appends at the far end
append(dq, e) ==
  LET grown == dq \o <<e>>
  IN  IF Len(grown) > maxlen THEN SubSeq(grown, 2, Len(grown)) ELSE grown

\* deque.appendleft on a deque with maxlen: the entry goes to the front and
\* an entry beyond maxlen falls off the far end
appendleft(dq, e) ==
  LET grown == <<e>> \o dq
  IN  IF Len(grown) > maxlen THEN SubSeq(grown, 1, maxlen) ELSE grown

\* a variant without mutual exclusion
CanAcquireUnlocked(lock) == TRUE

\* Lock.acquire() returns only when no thread holds the lock
CanAcquire(lock) == lock = NoThread

\* the lowest idle thread of a worker process takes its next request
IdleThread(w) ==
  LET idle == {k \in 1..threads : pc[<<w, k>>] = "idle"}
  IN  <<w, SetMin(idle)>>

HasIdle(w) == \E k \in 1..threads : pc[<<w, k>>] = "idle"

AllIdle == \A t \in Threads : pc[t] = "idle"

Init ==
  /\ mongo_db \in BOOLEAN
  /\ RECENT_LOCK = [w \in Workers |-> NoThread]
  /\ RECENT_ENTRIES = [w \in Workers |-> <<>>]
  /\ pc = [t \in Threads |-> "idle"]
  /\ frame = [t \in Threads |-> IdleFrame]
  /\ nreq = 0
  /\ pushLog = <<>>
  /\ succeeded = {}

\* POST /sms-webhook arrives at worker w: lines 52-109, up to the lock
Receive(w, req, now, limit) ==
  /\ nreq < limit
  /\ HasIdle(w)
  /\ req.method = "POST"
  /\ LET t == IdleThread(w)
         h == Handle(req, now)
     IN  /\ frame' = [frame EXCEPT ![t] =
                        [IdleFrame EXCEPT !.id = nreq + 1,
                                          !.req = req,
                                          !.response = h.response,
                                          !.cache0 = RECENT_ENTRIES[w]]]
         /\ pc' = [pc EXCEPT ![t] =
                     CASE h.branch = "parsed" -> "acquire"
                       [] h.branch = "ignore" /\ mongo_db -> "insert_raw"
                       [] OTHER -> "respond"]
  /\ nreq' = nreq + 1
  /\ UNCHANGED <<mongo_db, RECENT_LOCK, RECENT_ENTRIES, pushLog, succeeded>>

\* with RECENT_LOCK: (line 110) entered
Acquire(t) ==
  /\ pc[t] = "acquire"
  /\ CanAcquire(RECENT_LOCK[t[1]])
  /\ RECENT_LOCK' = [RECENT_LOCK EXCEPT ![t[1]] = t]
  /\ pc' = [pc EXCEPT ![t] = "push"]
  /\ UNCHANGED <<mongo_db, RECENT_ENTRIES, frame, nreq, pushLog, succeeded>>

\* what a push does to the threads of the process that are copying the deque:
\* they now have seen one more value of it
Witnessed(t, w, dq) ==
  [u \in Threads |->
     IF u[1] = w /\ u # t /\ pc[u] = "copy"
     THEN [frame[u] EXCEPT !.seen = @ \cup {dq}]
     ELSE frame[u]]

\* after the with block: if mongo_db is not None, insert_one is called and
\* the handler waits for it; otherwise the handler returns
AfterPush(db) == IF db THEN "insert" ELSE "respond"

\* a variant that records the entry twice
PushTwice(t) ==
  LET w  == t[1]
      e  == entry(frame[t].id, frame[t].req, frame[t].response)
      dq == appendleft(appendleft(RECENT_ENTRIES[w], e), e)
  IN  /\ pc[t] = "push"
      /\ RECENT_ENTRIES' = [RECENT_ENTRIES EXCEPT ![w] = dq]
      /\ pushLog' = pushLog \o <<[w |-> w, id |-> frame[t].id],
                                 [w |-> w, id |-> frame[t].id]>>
      /\ RECENT_LOCK' = [RECENT_LOCK EXCEPT ![w] = NoThread]
      /\ frame' = [Witnessed(t, w, dq) EXCEPT ![t].pushes = @ + 2]
      /\ pc' = [pc EXCEPT ![t] = AfterPush(mongo_db)]
      /\ UNCHANGED <<mongo_db, nreq, succeeded>>

\* RECENT_ENTRIES.appendleft(entry) (line 111) and the end of the with block
Push(t) ==
  LET w  == t[1]
      e  == entry(frame[t].id, frame[t].req, frame[t].response)
      dq == appendleft(RECENT_ENTRIES[w], e)
  IN  /\ pc[t] = "push"
      /\ RECENT_ENTRIES' = [RECENT_ENTRIES EXCEPT ![w] = dq]
      /\ pushLog' = Append(pushLog, [w |-> w, id |-> frame[t].id])
      /\ RECENT_LOCK' = [RECENT_LOCK EXCEPT ![w] = NoThread]
      /\ frame' = [Witnessed(t, w, dq) EXCEPT ![t].pushes = @ + 1]
      /\ pc' = [pc EXCEPT ![t] = AfterPush(mongo_db)]
      /\ UNCHANGED <<mongo_db, nreq, succeeded>>

\* mongo_db["logs"].insert_one(...) (lines 63 and 133) returns
InsertReturns(t) ==
  /\ pc[t] \in {"insert", "insert_raw"}
  /\ frame' = [frame EXCEPT ![t].persisted = "ok"]
  /\ pc' = [pc EXCEPT ![t] = "respond"]
  /\ UNCHANGED <<mongo_db, RECENT_LOCK, RECENT_ENTRIES, nreq, pushLog, succeeded>>

\* a variant in which the exception of insert_one reaches the outer except
InsertRaisesUncaught(t) ==
  /\ pc[t] \in {"insert", "insert_raw"}
  /\ frame' = [frame EXCEPT ![t].persisted = "failed",
                            ![t].response = Error("insert failed")]
  /\ pc' = [pc EXCEPT ![t] = "respond"]
  /\ UNCHANGED <<mongo_db, RECENT_LOCK, RECENT_ENTRIES, nreq, pushLog, succeeded>>

\* insert_one raises; the except clause (lines 64-65, 134-135) logs it
InsertRaises(t) ==
  /\ pc[t] \in {"insert", "insert_raw"}
  /\ frame' = [frame EXCEPT ![t].persisted = "failed"]
  /\ pc' = [pc EXCEPT ![t] = "respond"]
  /\ UNCHANGED <<mongo_db, RECENT_LOCK, RECENT_ENTRIES, nreq, pushLog, succeeded>>

\* the handler's return statement (lines 67, 138, 142): the response leaves
Respond(t) ==
  /\ pc[t] = "respond"
  /\ succeeded' = IF frame[t].response.status = "success"
                  THEN succeeded \cup {frame[t].id} ELSE succeeded
  /\ pc' = [pc EXCEPT ![t] = "idle"]
  /\ frame' = [frame EXCEPT ![t] = IdleFrame]
  /\ UNCHANGED <<mongo_db, RECENT_LOCK, RECENT_ENTRIES, nreq, pushLog>>

\* GET /recent arrives at worker w
RecentCall(w, limit) ==
  /\ nreq < limit
  /\ HasIdle(w)
  /\ LET t == IdleThread(w)
     IN  /\ frame' = [frame EXCEPT ![t] =
                        [IdleFrame EXCEPT !.id = nreq + 1, !.before = succeeded]]
         /\ pc' = [pc EXCEPT ![t] = "r_acquire"]
  /\ nreq' = nreq + 1
  /\ UNCHANGED <<mongo_db, RECENT_LOCK, RECENT_ENTRIES, pushLog, succeeded>>

\* with RECENT_LOCK: (line 157) entered
RecentAcquire(t) ==
  /\ pc[t] = "r_acquire"
  /\ CanAcquire(RECENT_LOCK[t[1]])
  /\ RECENT_LOCK' = [RECENT_LOCK EXCEPT ![t[1]] = t]
  /\ frame' = [frame EXCEPT ![t].seen = {RECENT_ENTRIES[t[1]]}]
  /\ pc' = [pc EXCEPT ![t] = "copy"]
  /\ UNCHANGED <<mongo_db, RECENT_ENTRIES, nreq, pushLog, succeeded>>

\* list(RECENT_ENTRIES) (line 158) takes the deque's next element
CopyStep(t) ==
  /\ pc[t] = "copy"
  /\ Len(frame[t].entries) < Len(RECENT_ENTRIES[t[1]])
  /\ frame' = [frame EXCEPT ![t].entries =
                 Append(@, RECENT_ENTRIES[t[1]][Len(@) + 1])]
  /\ UNCHANGED <<mongo_db, RECENT_LOCK, RECENT_ENTRIES, pc, nreq, pushLog,
                 succeeded>>

\* a variant that renders with the lock still held
RecentReleaseKeepsLock(t) ==
  /\ pc[t] = "copy"
  /\ Len(frame[t].entries) >= Len(RECENT_ENTRIES[t[1]])
  /\ pc' = [pc EXCEPT ![t] = "render"]
  /\ UNCHANGED <<mongo_db, RECENT_LOCK, RECENT_ENTRIES, frame, nreq, pushLog,
                 succeeded>>

\* list(RECENT_ENTRIES) is complete; the with block of line 157 ends
RecentRelease(t) ==
  /\ pc[t] = "copy"
  /\ Len(frame[t].entries) >= Len(RECENT_ENTRIES[t[1]])
  /\ RECENT_LOCK' = [RECENT_LOCK EXCEPT ![t[1]] = NoThread]
  /\ pc' = [pc EXCEPT ![t] = "render"]
  /\ UNCHANGED <<mongo_db, RECENT_ENTRIES, frame, nreq, pushLog, succeeded>>

\* return render_template("recent.html", entries=entries) (line 159)
Render(t) ==
  /\ pc[t] = "render"
  /\ pc' = [pc EXCEPT ![t] = "idle"]
  /\ frame' = [frame EXCEPT ![t] = IdleFrame]
  /\ UNCHANGED <<mongo_db, RECENT_LOCK, RECENT_ENTRIES, nreq, pushLog, succeeded>>

(***************************************************************************)
(* Inputs                                                                  *)
(***************************************************************************)
\* "UPI Credit Rs.5"
SMS_CREDIT ==
  <<"U","P","I"," ","C","r","e","d","i","t"," ","R","s",".","5">>

\* "OTP 4321"
SMS_OTP == <<"O","T","P"," ","4","3","2","1">>

\* values of datetime.now().isoformat()
Clock ==
  { <<"2","0","2","4","-","0","3","-","1","5","T","1","0",":","3","0",":","0","0">>,
    <<"2","0","2","4","-","0","3","-","1","5","T","1","0",":","3","1",":","0","0">> }

SentAt == Str(<<"0","9",":","0","0">>)

FormKey(m, time) == Post([key |-> Str(m), msg |-> None, time |-> time], NoJson)

FormMsg(m, time) == Post([key |-> None, msg |-> Str(m), time |-> time], NoJson)

JsonKey(k, m) ==
  Post(NoFields, JsonDict([key |-> k, msg |-> m, time |-> None]))

\* the requests the server specifications send: a credit message, another
\* message, and a JSON body whose key is the number 123
Requests ==
  { FormKey(SMS_CREDIT, SentAt),
    FormMsg(SMS_OTP, None) }

\* the pieces the parser's messages are made of
Fragments ==
  { <<"U","P","I"," ","C","r","e","d","i","t">>,
    <<"u","p","i"," ","C","R","E","D","I","T">>,
    <<"A","D","-","H","D","F","C"," ">>,
    <<" ","R","s",".","5","0",".","5">>,
    <<" ","I","n","f","o",":","U","P","I","/","C","R","/","1","2","/">>,
    <<"/","J","O","E">>,
    <<" ","o","n"," ","1","5","-","0","3","-","2","4"," ","1","0",":","3","0",":","0","0">>,
    <<" ","o","n"," ","1","x">> }

\* fragments per message
MaxFrags == 3

RECURSIVE Concat(_)
Concat(fs) == IF fs = <<>> THEN <<>> ELSE fs[1] \o Concat(Tail(fs))

Messages ==
  UNION {{Concat(fs) : fs \in [1..n -> Fragments]} : n \in 0..MaxFrags}

\* the requests the parser specification sends: every message as the form
\* field key, and the other shapes of body the handler reads
ParseRequests ==
  {FormKey(m, None) : m \in Messages}
    \cup {FormKey(m, SentAt) : m \in {SMS_CREDIT, SMS_OTP}}
    \cup {FormMsg(m, None) : m \in {SMS_CREDIT, SMS_OTP}}
    \cup {FormKey(<<>>, SentAt)}
    \cup {JsonKey(Str(SMS_CREDIT), None), JsonKey(None, Str(SMS_CREDIT)),
          JsonKey(Number(0), Str(SMS_CREDIT)), JsonKey(Number(123), None),
          JsonKey(None, Number(7)), JsonKey(None, None)}
    \cup {Post(NoFields, NoJson), Post(NoFields, JsonList),
          Post(NoFields, JsonDict([key |-> Str(SMS_CREDIT), msg |-> None,
                                   time |-> Number(5)]))}

(***************************************************************************)
(* Specifications                                                          *)
(***************************************************************************)
\* the handlers' steps past the arrival of a request
Step(t) ==
  \/ Acquire(t)
  \/ Push(t)
  \/ InsertReturns(t)
  \/ InsertRaises(t)
  \/ Respond(t)
  \/ RecentAcquire(t)
  \/ CopyStep(t)
  \/ RecentRelease(t)
  \/ Render(t)

\* the server as deployed: any worker takes any request, threads interleave
Next ==
  \/ \E w \in Workers, r \in Requests, now \in Clock :
       Receive(w, r, now, MaxRequests)
  \/ \E w \in Workers : RecentCall(w, MaxRequests)
  \/ \E t \in Threads : Step(t)

Spec == Init /\ [][Next]_vars

\* one worker process, its threads interleaved
ProcThreads == {t \in Threads : t[1] = 1}

ProcNext ==
  \/ \E r \in Requests, now \in Clock : Receive(1, r, now, MaxProcRequests)
  \/ RecentCall(1, MaxProcRequests)
  \/ \E t \in ProcThreads : Step(t)

ProcSpec == Init /\ [][ProcNext]_vars

\* Steps of a handler that runs are taken; a thread waiting for the lock gets
\* it if it is free again and again.  Nothing obliges a client to send a
\* request, nor the database to answer an insert.
Fairness ==
  \A t \in ProcThreads :
    /\ SF_vars(Acquire(t))
    /\ SF_vars(RecentAcquire(t))
    /\ WF_vars(Push(t))
    /\ WF_vars(Respond(t))
    /\ WF_vars(CopyStep(t))
    /\ WF_vars(RecentRelease(t))
    /\ WF_vars(Render(t))

FairNext ==
  \/ \E r \in Requests, now \in Clock : Receive(1, r, now, MaxFairRequests)
  \/ RecentCall(1, MaxFairRequests)
  \/ \E t \in ProcThreads : Step(t)

FairSpec == Init /\ [][FairNext]_vars /\ Fairness

\* one process serving one request after the other
SeqNext ==
  \/ \E r \in Requests, now \in Clock :
       AllIdle /\ Receive(1, r, now, MaxSeqRequests)
  \/ AllIdle /\ RecentCall(1, MaxSeqRequests)
  \/ \E t \in Threads : Step(t)

SeqSpec == Init /\ [][SeqNext]_vars

\* the handler applied to one request
ParseNext ==
  \/ \E r \in ParseRequests, now \in Clock : nreq = 0 /\ Receive(1, r, now, 1)
  \/ \E t \in Threads :
       \/ Acquire(t)
       \/ Push(t)
       \/ InsertReturns(t)
       \/ InsertRaises(t)
       \/ Respond(t)

ParseSpec == Init /\ [][ParseNext]_vars

(***************************************************************************)
(* Properties                                                              *)
(***************************************************************************)
\* the appends of process w, oldest first, as request numbers
WorkerLog(w) ==
  LET mine == SelectSeq(pushLog, LAMBDA x : x.w = w)
  IN  [i \in 1..Len(mine) |-> mine[i].id]

\* the request numbers of a sequence of entries
Ids(es) == [i \in 1..Len(es) |-> es[i].id]

\* the last n elements of log, newest first
NewestFirst(log, n) == [i \in 1..n |-> log[Len(log) + 1 - i]]

Least(a, b) == IF a <= b THEN a ELSE b

Count(x, seq) == Cardinality({i \in 1..Len(seq) : seq[i] = x})

\* the text of the message a request carries, when it carries a string
Eligible(req) ==
  /\ data(req).kind = "dict"
  /\ message(data(req)).t = "str"
  /\ IsCredit(message(data(req)).v)

Text(req) == message(data(req)).v

C2_SnapshotIsLastFive ==
  /\ \A w \in Workers :
       /\ Len(RECENT_ENTRIES[w]) <= 5
       /\ Ids(RECENT_ENTRIES[w])
            = NewestFirst(WorkerLog(w), Least(Len(WorkerLog(w)), 5))
  /\ \A t \in Threads :
       pc[t] = "render" =>
         Ids(frame[t].entries)
           = NewestFirst(WorkerLog(t[1]), Least(Len(WorkerLog(t[1])), 5))

\* GET /recent has copied the deque after six pushes
C2_Witness ==
  \E t \in Threads :
    /\ pc[t] = "render"
    /\ Len(WorkerLog(t[1])) = 6
    /\ Len(frame[t].entries) = 5

\* C3: the response to an eligible message is 200 with status "success" and
\* the record parsed from the message, whether there is no database, the
\* insert returned or the insert raised.
C3_PersistenceNeverAltersResponse ==
  \A t \in Threads :
    (pc[t] = "respond" /\ Eligible(frame[t].req)) =>
      LET r == frame[t].response
      IN  /\ r.code = 200
          /\ r.status = "success"
          /\ r = Success(parsed_data(Text(frame[t].req), r.parsed.received_at))
          /\ frame[t].persisted \in {"absent", "ok", "failed"}
          /\ (frame[t].persisted = "absent") <=> ~mongo_db

\* an eligible message is about to be answered after its insert raised
C3_Witness ==
  \E t \in Threads :
    /\ pc[t] = "respond"
    /\ Eligible(frame[t].req)
    /\ frame[t].persisted = "failed"
    /\ frame[t].response.code = 200

\* where "UPI Credit", compared case-insensitively, occurs in m
Occurrences(m) == {i \in 1..Len(m) : Lit(lower(m), i, UPI_CREDIT)}

\* C4: a message in which the literal "UPI Credit" occurs, at position 0 or
\* later, is accepted and raw_sms is the message from the first occurrence
\* on; a message in which it does not occur is not applicable.
C4_NormalizedGate ==
  \A t \in Threads :
    (pc[t] = "respond" /\ data(frame[t].req).kind = "dict"
                       /\ message(data(frame[t].req)).t = "str") =>
      LET m == Text(frame[t].req)
          r == frame[t].response
      IN  IF Occurrences(m) # {}
          THEN /\ r.status = "success"
               /\ r.parsed.raw_sms
                    = Str(SubSeq(m, SetMin(Occurrences(m)), Len(m)))
          ELSE r = Ignored

\* Rs\.?(\d+(?:\.\d{1,2})?) matches somewhere in m
HasAmount(m) ==
  \E i \in 1..Len(m) :
    /\ Lit(m, i, <<"R","s">>)
    /\ \/ In(m, i + 2, Digit)
       \/ At(m, i + 2, ".") /\ In(m, i + 3, Digit)

\* Info:UPI/[A-Z]+/(\d+)/ matches somewhere in m
HasTxn(m) ==
  \E i \in 1..Len(m) :
    /\ Lit(m, i, <<"I","n","f","o",":","U","P","I","/">>)
    /\ \E a \in (i + 9)..Len(m) :
         /\ \A k \in (i + 9)..a : m[k] \in Upper
         /\ At(m, a + 1, "/")
         /\ \E b \in (a + 2)..Len(m) :
              /\ \A k \in (a + 2)..b : m[k] \in Digit
              /\ At(m, b + 1, "/")

\* /(\w[\w\s]*)\s+on\s+\d matches somewhere in m
HasName(m) ==
  \E i \in 1..Len(m) :
    /\ At(m, i, "/")
    /\ In(m, i + 1, Word)
    /\ \E e \in (i + 1)..Len(m) :
         /\ \A k \in (i + 1)..e : m[k] \in Word \cup Space
         /\ \E q \in (e + 2)..Len(m) :
              /\ \A k \in (e + 1)..(q - 1) : m[k] \in Space
              /\ Lit(m, q, <<"o","n">>)
              /\ \E r \in (q + 3)..Len(m) :
                   /\ \A k \in (q + 2)..(r - 1) : m[k] \in Space
                   /\ m[r] \in Digit

\* on\s+(\d{2}-\d{2}-\d{2}\s+\d{2}:\d{2}:\d{2}) matches somewhere in m
HasTime(m) ==
  \E i \in 1..Len(m) :
    /\ Lit(m, i, <<"o","n">>)
    /\ \E a \in (i + 3)..Len(m) :
         /\ \A k \in (i + 2)..(a - 1) : m[k] \in Space
         /\ Triple(m, a, "-")
         /\ \E b \in (a + 9)..Len(m) :
              /\ \A k \in (a + 8)..(b - 1) : m[k] \in Space
              /\ Triple(m, b, ":")

\* C5: in the record parsed from an eligible message each of amount,
\* transaction_id, name and timestamp is a value exactly when its own pattern
\* matches the message and None otherwise, whatever the other three patterns
\* do; raw_sms is the message and received_at is a non-empty value.
C5_FieldsIndependent ==
  \A t \in Threads :
    (pc[t] = "respond" /\ frame[t].response.status = "success") =>
      LET m == Text(frame[t].req)
          p == frame[t].response.parsed
      IN  /\ (p.amount # None) <=> HasAmount(m)
          /\ (p.transaction_id # None) <=> HasTxn(m)
          /\ (p.name # None) <=> HasName(m)
          /\ (p.timestamp # None) <=> HasTime(m)
          /\ p.amount.t \in {"float", "none"}
          /\ p.transaction_id.t \in {"str", "none"}
          /\ p.name.t \in {"str", "none"}
          /\ p.timestamp.t \in {"str", "none"}
          /\ p.raw_sms = Str(m)
          /\ Truthy(p.received_at)

\* a parsed record with transaction_id and timestamp but neither amount nor
\* name
C5_Witness ==
  \E t \in Threads :
    /\ pc[t] = "respond"
    /\ frame[t].response.status = "success"
    /\ frame[t].response.parsed.amount = None
    /\ frame[t].response.parsed.transaction_id # None
    /\ frame[t].response.parsed.name = None
    /\ frame[t].response.parsed.timestamp # None

\* C6: a request whose message is not of the eligible format (no message, an
\* empty one, a value that is no string, a text without the prefix) is
\* answered with the not-applicable response, never with a 500.
C6_NotApplicableNever500 ==
  \A t \in Threads :
    (pc[t] = "respond" /\ ~Eligible(frame[t].req)) =>
      /\ frame[t].response = Ignored
      /\ frame[t].response.code # 500

\* C7: the response of an accepted request whose insert is outstanding is
\* eventually returned, whether or not the insert ever completes.
C7_ResponseDoesNotWait ==
  \A t \in ProcThreads : (pc[t] = "insert") ~> (pc[t] = "idle")

\* C8: the list GET /recent copied is the value the deque had at one instant
\* of the copy, and no step changes it between the copy and the rendering.
C8_SnapshotAtomic ==
  /\ [](\A t \in Threads :
          pc[t] = "render" => frame[t].entries \in frame[t].seen)
  /\ [][\A t \in Threads :
          (pc[t] = "render" /\ pc'[t] = "render") =>
            frame'[t].entries = frame[t].entries]_vars

\* a copy is about to be rendered and the deque has been pushed to since
C8_Witness ==
  \E t \in Threads :
    /\ pc[t] = "render"
    /\ frame[t].entries # <<>>
    /\ Len(RECENT_ENTRIES[t[1]]) > Len(frame[t].entries)

\* a thread is inside a with RECENT_LOCK block
InCritical(t) == pc[t] \in {"push", "copy"}

\* C9: a thread is inside a with block exactly when it holds the lock of its
\* process, so at most one thread of a process is; the deque changes and is
\* read only by the holder; the holder is not parsing, logging, rendering or
\* inserting; and a thread that waits for the lock gets it.
C9_LockDiscipline ==
  /\ [](\A t \in Threads : InCritical(t) <=> RECENT_LOCK[t[1]] = t)
  /\ [](\A t, u \in Threads :
          (t # u /\ t[1] = u[1]) => ~(InCritical(t) /\ InCritical(u)))
  /\ [][\A t \in Threads :
          (\/ frame'[t].pushes > frame[t].pushes
           \/ (pc[t] = "copy" /\ frame'[t].entries # frame[t].entries)) =>
            RECENT_LOCK[t[1]] = t]_vars
  /\ \A t \in ProcThreads :
       (pc[t] \in {"acquire", "r_acquire"}) ~> InCritical(t)

\* a thread holds the lock while the other thread of its process waits for it
C9_Witness ==
  \E t, u \in ProcThreads :
    /\ RECENT_LOCK[1] = t
    /\ pc[t] = "copy"
    /\ pc[u] = "acquire"

\* the pushes, by any process, that came after the push of request i
Further(i) ==
  Cardinality({k \in 1..Len(pushLog) :
                 \E j \in 1..Len(pushLog) : pushLog[j].id = i /\ j < k})

\* C10: a GET /recent shows every request whose success response had been
\* returned before the GET arrived, unless five further pushes came after it,
\* whichever worker serves the GET.
C10_ReadYourWrites ==
  \A t \in Threads :
    pc[t] = "render" =>
      \A i \in frame[t].before :
        Further(i) < maxlen =>
          \E k \in 1..Len(frame[t].entries) : frame[t].entries[k].id = i

=============================================================================
